---------------------------- MODULE Spec2Model ----------------------------
(***************************************************************************)
(* Relay bot (src/relay_bot.py) and command extractor / instance store     *)
(* (src/bot_command_extractor.py).                                         *)
(*                                                                         *)
(* Relay side: relay_command forwards a user's command to the master over  *)
(* the listener session tg_user, registers a NewMessage handler filtered   *)
(* only by the sender (the master), and leaves the session.  The master    *)
(* and the network are the environment: the master answers the commands it *)
(* has received in any order or never; a reply reaches the listener only   *)
(* while the session is open.                                              *)
(*                                                                         *)
(* Store side: the three sqlite tables, create_bot_instance, the statement *)
(* sequence of save_extracted_commands inside its implicit transaction,    *)
(* and the readers, which use connections of their own and therefore see   *)
(* committed rows only.                                                    *)
(***************************************************************************)
EXTENDS Integers, Sequences, FiniteSets, TLC

\* ------------------------------------------------------------------ bounds
NReq ==
    2
MaxQuota ==
    2
MaxStatusRows ==
    2

\* --------------------------------------------------------------- constants
\* NULL of a nullable TIMESTAMP column (last_command_sync)
NULL ==
    -1
\* the facade bot's token, relay_bot.py's TOKEN_TIRUAN
TOKEN_TIRUAN ==
    "token_tiruan"

\* create_bot_instance(..., quota=100, duration_hours=24)
DefaultQuota ==
    100
DefaultDuration ==
    24
\* probe_commands of probe_bot_commands holds eight commands
NProbes ==
    8
\* the clock runs from 0 to MaxTime hours
MaxTime ==
    1

Reqs ==
    1..NReq
BotIds ==
    {1, 2}
Quotas ==
    0..MaxQuota
Durations ==
    {0, DefaultDuration}
Owners ==
    {100}

VARIABLES
    \* relay_bot.py
    pc,             \* position of each relay_command call
    connected,      \* tg_user session open (inside "async with tg_user")
    handlers,       \* tg_user's registered NewMessage handlers, in order
    running,        \* handler invocations awaiting bot_tiruan.send_message
    delivered,      \* texts bot_tiruan sent to each requester's chat
    masterInbox,    \* commands the master has received and not yet answered
    net,            \* master replies on their way to the listener
    submittedFor,   \* history: instances of this facade when the call began
    \* bot_command_extractor.py
    bot_instances,  \* table bot_instances, keyed by the UNIQUE bot_id
    bot_commands,   \* table bot_commands, rows in insertion (id) order
    bot_status,     \* table bot_status, rows in insertion (id) order
    conn,           \* the open connection of save_extracted_commands
    result,         \* what the last store call returned (none while a save runs)
    now,            \* datetime.now() / CURRENT_TIMESTAMP, in hours
    syncing,        \* the frame of the running sync_bot_commands call
    reply           \* the master's reply text handed to the parser, by lines

relayVars ==
    <<pc, connected, handlers, running, delivered, masterInbox, net, submittedFor>>
storeVars ==
    <<bot_instances, bot_commands, bot_status, conn, result, now, syncing, reply>>
vars ==
    <<pc, connected, handlers, running, delivered, masterInbox, net, submittedFor,
      bot_instances, bot_commands, bot_status, conn, result, now, syncing, reply>>

\* ----------------------------------------------------------------- helpers
Range(s) ==
    {s[i] : i \in DOMAIN s}

RECURSIVE SeqFilterOut(_, _)
\* list.remove / del of every element equal to x
SeqFilterOut(s, x) ==
    IF s = <<>> THEN <<>>
    ELSE IF Head(s) = x THEN SeqFilterOut(Tail(s), x)
    ELSE <<Head(s)>> \o SeqFilterOut(Tail(s), x)

NoConn ==
    [pc |-> "closed"]
NoResult ==
    [op |-> "none"]
NoSync ==
    [pc |-> "idle"]

\* rows of bot_instances that belong to the facade bot relay_bot.py runs as
FacadeInstances ==
    {b \in DOMAIN bot_instances : bot_instances[b].fake_bot_token = TOKEN_TIRUAN}

\* --------------------------------------------------------------- relay_bot
\* PTB's Application processes updates one at a time (concurrent_updates is
\* off by default), so a relay_command call starts only when the previous
\* one has returned; requests are numbered in submission order.
NoCallActive ==
    \A q \in Reqs : pc[q] \in {"idle", "done"}

\* async with tg_user:  (__aenter__ connects the session)
relay_command_enter(r) ==
    /\ pc[r] = "idle"
    /\ \A q \in Reqs : q < r => pc[q] = "done"
    /\ NoCallActive
    /\ pc' = [pc EXCEPT ![r] = "send"]
    /\ connected' = TRUE
    /\ submittedFor' = [submittedFor EXCEPT ![r] = FacadeInstances]
    /\ UNCHANGED <<handlers, running, delivered, masterInbox, net>>
    /\ UNCHANGED storeVars

\* mutant: the relay charges the instance's quota when it sends
relay_command_send_charging(r) ==
    /\ pc[r] = "send"
    /\ pc' = [pc EXCEPT ![r] = "register"]
    /\ masterInbox' = masterInbox \cup {r}
    /\ bot_instances' =
            [b \in DOMAIN bot_instances |->
                IF b \in FacadeInstances
                THEN [bot_instances[b] EXCEPT !.quota_used = @ + 1]
                ELSE bot_instances[b]]
    /\ UNCHANGED <<connected, handlers, running, delivered, net, submittedFor>>
    /\ UNCHANGED <<bot_commands, bot_status, conn, result, now, syncing, reply>>

\* await tg_user.send_message(MASTER_USERNAME, cmd)
relay_command_send(r) ==
    /\ pc[r] = "send"
    /\ pc' = [pc EXCEPT ![r] = "register"]
    /\ masterInbox' = masterInbox \cup {r}
    /\ UNCHANGED <<connected, handlers, running, delivered, net, submittedFor>>
    /\ UNCHANGED storeVars

\* @tg_user.on(events.NewMessage(from_users=MASTER_USERNAME))
relay_command_register(r) ==
    /\ pc[r] = "register"
    /\ pc' = [pc EXCEPT ![r] = "exit"]
    /\ handlers' = Append(handlers, r)
    /\ UNCHANGED <<connected, running, delivered, masterInbox, net, submittedFor>>
    /\ UNCHANGED storeVars

\* leaving "async with tg_user" (__aexit__ disconnects); the call returns
relay_command_exit(r) ==
    /\ pc[r] = "exit"
    /\ pc' = [pc EXCEPT ![r] = "done"]
    /\ connected' = FALSE
    /\ UNCHANGED <<handlers, running, delivered, masterInbox, net, submittedFor>>
    /\ UNCHANGED storeVars

\* handler(event): reply = event.raw_text; send it to the requester's chat;
\* then remove_event_handler(handler).  The removal follows the awaited
\* send, so the handler stays registered while the send is pending.
handler(h, m) ==
    /\ <<h, m>> \in running
    /\ running' = running \ {<<h, m>>}
    /\ delivered' = [delivered EXCEPT ![h] = Append(@, m)]
    /\ handlers' = SeqFilterOut(handlers, h)
    /\ UNCHANGED <<pc, connected, masterInbox, net, submittedFor>>
    /\ UNCHANGED storeVars

\* ------------------------------------------------------------- environment
\* the master answers one of the commands it has received; reply m answers
\* the command of request m
MasterReply(m) ==
    /\ m \in masterInbox
    /\ masterInbox' = masterInbox \ {m}
    /\ net' = Append(net, m)
    /\ UNCHANGED <<pc, connected, handlers, running, delivered, submittedFor>>
    /\ UNCHANGED storeVars

\* a master message reaches the open session: every handler registered with
\* from_users=MASTER_USERNAME is invoked with it
Dispatch ==
    /\ connected
    /\ net # <<>>
    /\ running' = running \cup {<<h, Head(net)>> : h \in Range(handlers)}
    /\ net' = Tail(net)
    /\ UNCHANGED <<pc, connected, handlers, delivered, masterInbox, submittedFor>>
    /\ UNCHANGED storeVars

\* a master message sent while the session is closed is not caught up later
\* (it may also wait in net until the next session opens)
Missed ==
    /\ ~connected
    /\ net # <<>>
    /\ net' = Tail(net)
    /\ UNCHANGED <<pc, connected, handlers, running, delivered, masterInbox, submittedFor>>
    /\ UNCHANGED storeVars

\* ------------------------------------------------------ create_bot_instance
\* bot_id is secrets.token_hex(8); a bot_id already stored violates the
\* UNIQUE constraint: the insert raises and None is returned
CreateCall(bot_id, owner_id, quota, duration_hours) ==
    [bot_id |-> bot_id, owner_id |-> owner_id, quota |-> quota,
     duration_hours |-> duration_hours, at |-> now, before |-> bot_instances]

\* mutant: the insert replaces a stored row that has the same bot_id
create_bot_instance_replacing(bot_id, owner_id, fake_token, quota, duration_hours) ==
    /\ conn = NoConn
    /\ bot_instances' =
            [b \in DOMAIN bot_instances \cup {bot_id} |->
                IF b = bot_id
                THEN [fake_bot_token |-> fake_token,
                      owner_telegram_id |-> owner_id,
                      quota_limit |-> quota,
                      quota_used |-> 0,
                      duration_hours |-> duration_hours,
                      created_at |-> now,
                      expires_at |-> now + duration_hours,
                      is_active |-> TRUE,
                      status |-> "active",
                      last_command_sync |-> NULL]
                ELSE bot_instances[b]]
    /\ result' = [op |-> "create_bot_instance", value |-> bot_id,
                  call |-> CreateCall(bot_id, owner_id, quota, duration_hours)]
    /\ UNCHANGED <<bot_commands, bot_status, conn, now>>
    /\ UNCHANGED <<syncing, reply>>
    /\ UNCHANGED relayVars

create_bot_instance(bot_id, owner_id, fake_token, quota, duration_hours) ==
    /\ conn = NoConn
    /\ IF bot_id \in DOMAIN bot_instances
       THEN /\ result' = [op |-> "create_bot_instance", value |-> NULL,
                          call |-> CreateCall(bot_id, owner_id, quota,
                                              duration_hours)]
            /\ UNCHANGED bot_instances
       ELSE /\ bot_instances' =
                [b \in DOMAIN bot_instances \cup {bot_id} |->
                    IF b = bot_id
                    THEN [fake_bot_token |-> fake_token,
                          owner_telegram_id |-> owner_id,
                          quota_limit |-> quota,
                          quota_used |-> 0,
                          duration_hours |-> duration_hours,
                          created_at |-> now,
                          expires_at |-> now + duration_hours,
                          is_active |-> TRUE,
                          status |-> "active",
                          last_command_sync |-> NULL]
                    ELSE bot_instances[b]]
            /\ result' = [op |-> "create_bot_instance", value |-> bot_id,
                          call |-> CreateCall(bot_id, owner_id, quota,
                                              duration_hours)]
    /\ UNCHANGED <<bot_commands, bot_status, conn, now>>
    /\ UNCHANGED <<syncing, reply>>
    /\ UNCHANGED relayVars

\* ------------------------------------------------------------ the database
\* the committed content of the three tables
Committed ==
    [instances |-> bot_instances, commands |-> bot_commands, status |-> bot_status]

\* the empty dict {}
EmptyDict ==
    [x \in {} |-> ""]

\* dict.get(key, default)
Get(d, key, default) ==
    IF key \in DOMAIN d THEN d[key] ELSE default

\* rows of a table that belong to bot_id (WHERE bot_id = ?)
RowsOf(table, bot_id) ==
    SelectSeq(table, LAMBDA row : row.bot_id = bot_id)

\* DELETE FROM bot_commands WHERE bot_id = ?
DeleteCommands(db, bot_id) ==
    [db EXCEPT !.commands = SelectSeq(@, LAMBDA row : row.bot_id # bot_id)]

\* INSERT INTO bot_commands (bot_id, command, description, usage_example, category)
InsertCommand(db, bot_id, cmd_data) ==
    [db EXCEPT !.commands = Append(@,
        [bot_id |-> bot_id,
         command |-> Get(cmd_data, "command", ""),
         description |-> Get(cmd_data, "description", ""),
         usage_example |-> Get(cmd_data, "usage_example", ""),
         category |-> Get(cmd_data, "category", "general")])]

\* id INTEGER PRIMARY KEY AUTOINCREMENT of bot_status (no row is ever deleted)
NextStatusId(table) ==
    IF table = <<>> THEN 1 ELSE table[Len(table)].id + 1

\* INSERT OR REPLACE INTO bot_status (bot_id, user_id, username, expired_date,
\* status): REPLACE deletes the rows that conflict with the new row on a
\* PRIMARY KEY or UNIQUE column; the only such column of bot_status is id,
\* and the new row's id is fresh
InsertOrReplaceStatus(db, bot_id, status_data) ==
    LET id == NextStatusId(db.status)
        row == [id |-> id,
                bot_id |-> bot_id,
                user_id |-> Get(status_data, "id", "None"),
                username |-> Get(status_data, "name", "None"),
                expired_date |-> Get(status_data, "expired", "None"),
                status |-> Get(status_data, "status", "None")]
    IN  [db EXCEPT !.status = Append(SelectSeq(@, LAMBDA old : old.id # id), row)]

\* UPDATE bot_instances SET last_command_sync = CURRENT_TIMESTAMP WHERE bot_id = ?
\* mutant: the UPDATE has no WHERE clause
UpdateLastSync_every_row(db, bot_id, t) ==
    LET tbl == db.instances
    IN  [db EXCEPT !.instances =
            [b \in DOMAIN tbl |-> [tbl[b] EXCEPT !.last_command_sync = t]]]

UpdateLastSync(db, bot_id, t) ==
    LET tbl == db.instances
    IN  [db EXCEPT !.instances =
            [b \in DOMAIN tbl |->
                IF b = bot_id THEN [tbl[b] EXCEPT !.last_command_sync = t] ELSE tbl[b]]]

\* --------------------------------------------------- save_extracted_commands
\* sample inputs: entries as parse_bot_response_for_commands builds them
EntryPlain ==
    [command |-> "/premium", description |-> "- Upgrade to premium features",
     category |-> "general"]
EntryParam ==
    [command |-> "/ceksiswa", description |-> "Command with parameter: nik",
     usage_example |-> "/ceksiswa {nik}", category |-> "parametric"]
StatusSample ==
    [name |-> "ZERIF OSINT", id |-> "7555202218",
     expired |-> "29 Jun 2026 22:0:20", status |-> "ACTIVE"]
Catalogs ==
    {<<>>, <<EntryPlain>>, <<EntryPlain, EntryParam>>}
CommandsData ==
    {[commands |-> c, bot_status |-> s, total_commands |-> Len(c)] :
        c \in Catalogs, s \in {EmptyDict, StatusSample}}

\* history kept with a returned value: the call of save_extracted_commands
\* that was running, its arguments and the content it started from
Call(c) ==
    IF c = NoConn THEN [bot_id |-> 0]
    ELSE [bot_id |-> c.bot_id, data |-> c.data, before |-> c.before,
          pc |-> c.pc, k |-> c.k]

\* conn = sqlite3.connect(self.db_path); cursor = conn.cursor()
\* work is what this connection sees; before is the content at the call
save_extracted_commands_call(bot_id, commands_data) ==
    /\ conn = NoConn
    /\ commands_data.bot_status # EmptyDict => Len(bot_status) < MaxStatusRows
    /\ conn' = [pc |-> "delete", bot_id |-> bot_id, data |-> commands_data, k |-> 1,
                work |-> Committed, before |-> Committed]
    /\ result' = NoResult
    /\ UNCHANGED <<bot_instances, bot_commands, bot_status, now>>
    /\ UNCHANGED <<syncing, reply>>
    /\ UNCHANGED relayVars

\* mutant: the old rows are kept, the new ones are merged into them
save_extracted_commands_delete_skipped ==
    /\ conn.pc = "delete"
    /\ conn' = [conn EXCEPT !.pc = "insert"]
    /\ UNCHANGED <<bot_instances, bot_commands, bot_status, result, now>>
    /\ UNCHANGED <<syncing, reply>>
    /\ UNCHANGED relayVars

\* mutant: the connection runs in autocommit mode, the DELETE is visible
\* to the other connections at once
save_extracted_commands_delete_autocommit ==
    /\ conn.pc = "delete"
    /\ conn' = [conn EXCEPT !.pc = "insert",
                            !.work = DeleteCommands(conn.work, conn.bot_id)]
    /\ bot_commands' = DeleteCommands(conn.work, conn.bot_id).commands
    /\ UNCHANGED <<bot_instances, bot_status, result, now>>
    /\ UNCHANGED <<syncing, reply>>
    /\ UNCHANGED relayVars

\* cursor.execute('DELETE FROM bot_commands WHERE bot_id = ?'): opens the
\* implicit transaction, the rows go from this connection's view only
save_extracted_commands_delete ==
    /\ conn.pc = "delete"
    /\ conn' = [conn EXCEPT !.pc = "insert",
                            !.work = DeleteCommands(conn.work, conn.bot_id)]
    /\ UNCHANGED <<bot_instances, bot_commands, bot_status, result, now>>
    /\ UNCHANGED <<syncing, reply>>
    /\ UNCHANGED relayVars

\* one turn of: for cmd_data in commands_data.get('commands', []): INSERT
save_extracted_commands_insert ==
    /\ conn.pc = "insert"
    /\ conn.k <= Len(conn.data.commands)
    /\ conn' = [conn EXCEPT !.k = @ + 1,
                            !.work = InsertCommand(conn.work, conn.bot_id,
                                                   conn.data.commands[conn.k])]
    /\ UNCHANGED <<bot_instances, bot_commands, bot_status, result, now>>
    /\ UNCHANGED <<syncing, reply>>
    /\ UNCHANGED relayVars

\* if commands_data.get('bot_status'): INSERT OR REPLACE INTO bot_status
save_extracted_commands_status ==
    /\ conn.pc = "insert"
    /\ conn.k > Len(conn.data.commands)
    /\ conn' = [conn EXCEPT !.pc = "sync",
                            !.work = IF conn.data.bot_status # EmptyDict
                                     THEN InsertOrReplaceStatus(conn.work, conn.bot_id,
                                                                conn.data.bot_status)
                                     ELSE conn.work]
    /\ UNCHANGED <<bot_instances, bot_commands, bot_status, result, now>>
    /\ UNCHANGED <<syncing, reply>>
    /\ UNCHANGED relayVars

\* mutant: the last sync time is written only when entries were found
save_extracted_commands_sync_if_found ==
    /\ conn.pc = "sync"
    /\ conn' = [conn EXCEPT
                    !.pc = "commit",
                    !.work = IF conn.data.commands = <<>> THEN conn.work
                             ELSE UpdateLastSync(conn.work, conn.bot_id, now)]
    /\ UNCHANGED <<bot_instances, bot_commands, bot_status, result, now>>
    /\ UNCHANGED <<syncing, reply>>
    /\ UNCHANGED relayVars

\* UPDATE bot_instances SET last_command_sync = CURRENT_TIMESTAMP
save_extracted_commands_sync ==
    /\ conn.pc = "sync"
    /\ conn' = [conn EXCEPT !.pc = "commit",
                            !.work = UpdateLastSync(conn.work, conn.bot_id, now)]
    /\ UNCHANGED <<bot_instances, bot_commands, bot_status, result, now>>
    /\ UNCHANGED <<syncing, reply>>
    /\ UNCHANGED relayVars

\* conn.commit(); return True; finally: conn.close()
save_extracted_commands_commit ==
    /\ conn.pc = "commit"
    /\ bot_instances' = conn.work.instances
    /\ bot_commands' = conn.work.commands
    /\ bot_status' = conn.work.status
    /\ result' = [op |-> "save_extracted_commands", value |-> TRUE,
                  raised |-> "none", call |-> Call(conn)]
    /\ conn' = NoConn
    /\ UNCHANGED now
    /\ UNCHANGED <<syncing, reply>>
    /\ UNCHANGED relayVars

\* the statement the connection is about to run
Statement(c) ==
    IF c.pc = "insert" /\ c.k > Len(c.data.commands) THEN "status" ELSE c.pc

\* mutant: the failure path commits what was written so far
save_extracted_commands_except_commits ==
    /\ conn.pc \in {"delete", "insert", "sync", "commit"}
    /\ bot_instances' = conn.work.instances
    /\ bot_commands' = conn.work.commands
    /\ bot_status' = conn.work.status
    /\ result' = [op |-> "save_extracted_commands", value |-> FALSE,
                  raised |-> Statement(conn), call |-> Call(conn)]
    /\ conn' = NoConn
    /\ UNCHANGED now
    /\ UNCHANGED <<syncing, reply>>
    /\ UNCHANGED relayVars

\* a statement or the commit raises: except: conn.rollback(); return False;
\* finally: conn.close()
save_extracted_commands_except ==
    /\ conn.pc \in {"delete", "insert", "sync", "commit"}
    /\ result' = [op |-> "save_extracted_commands", value |-> FALSE,
                  raised |-> Statement(conn), call |-> Call(conn)]
    /\ conn' = NoConn
    /\ UNCHANGED <<bot_instances, bot_commands, bot_status, now>>
    /\ UNCHANGED <<syncing, reply>>
    /\ UNCHANGED relayVars

\* ----------------------------------------------------------------- readers
\* the SELECT of get_bot_commands_list: bot_instances LEFT JOIN bot_status
\* LEFT JOIN bot_commands WHERE bi.bot_id = ?, reduced to what the function
\* keeps of each row that has a command (ORDER BY only permutes the rows)
RECURSIVE JoinCommands(_, _)
JoinCommands(n, cmds) ==
    IF n = 0 THEN <<>> ELSE cmds \o JoinCommands(n - 1, cmds)

CommandsListOf(db, bot_id) ==
    IF bot_id \notin DOMAIN db.instances
    THEN [found |-> FALSE, commands |-> <<>>]
    ELSE LET st == RowsOf(db.status, bot_id)
             cm == RowsOf(db.commands, bot_id)
             entries == [i \in DOMAIN cm |->
                            [command |-> cm[i].command,
                             description |-> cm[i].description,
                             usage |-> cm[i].usage_example,
                             category |-> cm[i].category]]
         IN  [found |-> TRUE,
              commands |-> JoinCommands(IF st = <<>> THEN 1 ELSE Len(st), entries)]

\* get_bot_commands_list(bot_id), on a connection of its own
get_bot_commands_list(bot_id) ==
    /\ result' = [op |-> "get_bot_commands_list", bot_id |-> bot_id,
                  value |-> CommandsListOf(Committed, bot_id), during |-> Call(conn)]
    /\ UNCHANGED <<bot_instances, bot_commands, bot_status, conn, now>>
    /\ UNCHANGED <<syncing, reply>>
    /\ UNCHANGED relayVars

\* the SELECT of show_view_commands_menu: COUNT(bc.command) per active
\* instance of the owner
CommandCountsOf(db, user_id) ==
    LET mine == {b \in DOMAIN db.instances :
                    /\ db.instances[b].owner_telegram_id = user_id
                    /\ db.instances[b].is_active}
    IN  [b \in mine |-> Len(RowsOf(db.commands, b))]

\* show_view_commands_menu(query), on a connection of its own
show_view_commands_menu(user_id) ==
    /\ result' = [op |-> "show_view_commands_menu", user_id |-> user_id,
                  value |-> CommandCountsOf(Committed, user_id), during |-> Call(conn)]
    /\ UNCHANGED <<bot_instances, bot_commands, bot_status, conn, now>>
    /\ UNCHANGED <<syncing, reply>>
    /\ UNCHANGED relayVars

\* ------------------------------------------------------------ Python's re
\* A text is a sequence of one-character strings; a pattern is a sequence of
\* nodes, matched by backtracking in the order Python's re tries them.
Lower ==
    {"a", "b", "c", "d", "e", "f", "g", "h", "i", "j", "k", "l", "m", "n", "o", "p", "q", "r", "s", "t", "u", "v", "w", "x", "y", "z"}
Upper ==
    {"A", "B", "C", "D", "E", "F", "G", "H", "I", "J", "K", "L", "M", "N", "O", "P", "Q", "R", "S", "T", "U", "V", "W", "X", "Y", "Z"}
\* \d
Digit ==
    {"0", "1", "2", "3", "4", "5", "6", "7", "8", "9"}
\* \w
Word ==
    Lower \cup Upper \cup Digit \cup {"_"}
\* \s
Space ==
    {" ", "\t", "\n"}

\* a node of a pattern; cls is <<negated, set>> for a character class
Node(t, cls, min, body, k) ==
    [t |-> t, cls |-> cls, min |-> min, body |-> body, k |-> k]
NoClass ==
    <<FALSE, {}>>
\* [...] and, for a one-element set, a literal
In(set) ==
    <<Node("one", <<FALSE, set>>, 1, <<>>, 0)>>
\* [^...]; NotIn({}) is "." under re.DOTALL
NotIn(set) ==
    <<Node("one", <<TRUE, set>>, 1, <<>>, 0)>>
\* a literal under re.IGNORECASE
AnyCase(lo, up) ==
    In({lo, up})
\* c*, c+ and c+? for a character class c, given as In(..) or NotIn(..)
Star(c) ==
    <<Node("greedy", c[1].cls, 0, <<>>, 0)>>
Plus(c) ==
    <<Node("greedy", c[1].cls, 1, <<>>, 0)>>
LazyPlus(c) ==
    <<Node("lazy", c[1].cls, 1, <<>>, 0)>>
\* (?:body)* and (?:body)?
Repeat(body) ==
    <<Node("repeat", NoClass, 0, body, 0)>>
Opt(body) ==
    <<Node("opt", NoClass, 0, body, 0)>>
\* (body), the group numbered k
Group(k, body) ==
    <<Node("group", NoClass, 0, body, k)>>
\* (?=a|b|...): alts is the sequence of the alternatives
Ahead(alts) ==
    <<Node("ahead", NoClass, 0, alts, 0)>>
\* $ under re.MULTILINE: at the end of the text or before a newline
Eol ==
    <<Node("eol", NoClass, 0, <<>>, 0)>>

NoGroups ==
    [k \in 1..4 |-> <<0, 0>>]
NoMatch ==
    [ok |-> FALSE, start |-> 0, end |-> 0, g |-> NoGroups]

Is(cls, c) ==
    IF cls[1] THEN c \notin cls[2] ELSE c \in cls[2]

\* the position after the longest run of cls characters that starts at i
RunEnd(cls, s, i) ==
    IF \E j \in i..Len(s) : ~Is(cls, s[j])
        THEN CHOOSE j \in i..Len(s) :
                ~Is(cls, s[j]) /\ \A h \in i..(j - 1) : Is(cls, s[h])
        ELSE Len(s) + 1

\* the sequence f, enumerated once
List(f) ==
    <<>> \o f

\* the concatenation of a sequence of sequences
RECURSIVE Flatten(_)
Flatten(ss) ==
    IF ss = <<>> THEN <<>>
    ELSE IF Len(ss) = 1 THEN ss[1]
    ELSE LET h == Len(ss) \div 2
         IN  Flatten(SubSeq(ss, 1, h)) \o Flatten(SubSeq(ss, h + 1, Len(ss)))

\* every way pattern p matches text s from position i, as [end, g] with the
\* end position and the group spans, in the order Python's backtracking
\* matcher tries them: the first is the match Python reports
RECURSIVE Matches(_, _, _, _)
Matches(p, s, i, g) ==
    IF p = <<>> THEN <<[end |-> i, g |-> g]>>
    ELSE IF Len(p) > 1 THEN
        LET h == Len(p) \div 2
            left == Matches(SubSeq(p, 1, h), s, i, g)
        IN  Flatten(List([x \in DOMAIN left |->
                Matches(SubSeq(p, h + 1, Len(p)), s, left[x].end, left[x].g)]))
    ELSE
        LET n == p[1]
            here == <<[end |-> i, g |-> g]>>
            last == RunEnd(n.cls, s, i)
            first == i + n.min
        IN  CASE n.t = "one" ->
                    IF i <= Len(s) /\ Is(n.cls, s[i])
                        THEN <<[end |-> i + 1, g |-> g]>> ELSE <<>>
              [] n.t = "greedy" ->
                    List([x \in 1..(last - first + 1) |->
                        [end |-> last - x + 1, g |-> g]])
              [] n.t = "lazy" ->
                    List([x \in 1..(last - first + 1) |->
                        [end |-> first + x - 1, g |-> g]])
              [] n.t = "repeat" ->
                    LET once == Matches(n.body, s, i, g)
                    IN  Flatten(List([x \in DOMAIN once |->
                            IF once[x].end > i
                                THEN Matches(p, s, once[x].end, once[x].g)
                                ELSE <<>>])) \o here
              [] n.t = "opt" -> Matches(n.body, s, i, g) \o here
              [] n.t = "group" ->
                    LET inner == Matches(n.body, s, i, g)
                    IN  List([x \in DOMAIN inner |->
                            [end |-> inner[x].end,
                             g |-> [inner[x].g EXCEPT ![n.k] =
                                        <<i, inner[x].end>>]]])
              [] n.t = "ahead" ->
                    IF \E a \in DOMAIN n.body :
                            Matches(n.body[a], s, i, g) # <<>>
                        THEN here ELSE <<>>
              [] n.t = "eol" ->
                    IF i = Len(s) + 1 \/ (i <= Len(s) /\ s[i] = "\n")
                        THEN here ELSE <<>>

\* the first match of p at position start
MatchAt(p, s, start) ==
    LET m == Matches(p, s, start, NoGroups)[1]
    IN  [ok |-> TRUE, start |-> start, end |-> m.end, g |-> m.g]

\* re.search: the first match at the leftmost position that has one
re_search(p, s) ==
    LET Hit(j) == Matches(p, s, j, NoGroups) # <<>>
    IN  IF \E j \in 1..(Len(s) + 1) : Hit(j)
            THEN CHOOSE m \in
                    {MatchAt(p, s, j) : j \in
                        {CHOOSE j \in 1..(Len(s) + 1) :
                            Hit(j) /\ \A h \in 1..(j - 1) : ~Hit(h)}} : TRUE
            ELSE NoMatch

\* the matches of at, which lists the matches at every position, from
\* position i on: leftmost first, each search resuming where the last ended
RECURSIVE Scan(_, _)
Scan(at, i) ==
    IF \E j \in i..Len(at) : at[j] # <<>>
        THEN LET start == CHOOSE j \in i..Len(at) :
                            at[j] # <<>> /\ \A h \in i..(j - 1) : at[h] = <<>>
                 m == at[start][1]
             IN  <<[ok |-> TRUE, start |-> start, end |-> m.end, g |-> m.g]>>
                    \o Scan(at, IF m.end > start THEN m.end ELSE m.end + 1)
        ELSE <<>>

\* re.findall: the non-overlapping matches, left to right
re_findall(p, s) ==
    Scan(List([j \in 1..(Len(s) + 1) |-> Matches(p, s, j, NoGroups)]), 1)

\* m.group(k), as a sequence of characters
group(s, m, k) ==
    SubSeq(s, m.g[k][1], m.g[k][2] - 1)

\* str.strip()
strip(s) ==
    LET keep == {j \in DOMAIN s : s[j] \notin Space}
    IN  IF keep = {} THEN <<>>
        ELSE SubSeq(s, CHOOSE j \in keep : \A h \in keep : j <= h,
                       CHOOSE j \in keep : \A h \in keep : j >= h)

\* the Python str of a sequence of characters
RECURSIVE Str(_)
Str(s) ==
    IF s = <<>> THEN ""
    ELSE IF Len(s) = 1 THEN s[1]
    ELSE LET h == Len(s) \div 2
         IN  Str(SubSeq(s, 1, h)) \o Str(SubSeq(s, h + 1, Len(s)))

\* ------------------------------------------- parse_bot_response_for_commands
\* r'/(\w+)\s+(.+?)(?=\n/|\n\n|$)' with re.MULTILINE | re.DOTALL
pattern1_greedy ==
    In({"/"}) \o Group(1, Plus(In(Word))) \o Plus(In(Space))
        \o Group(2, Plus(NotIn({})))
        \o Ahead(<<In({"\n"}) \o In({"/"}), In({"\n"}) \o In({"\n"}), Eol>>)
pattern1 ==
    In({"/"}) \o Group(1, Plus(In(Word))) \o Plus(In(Space))
        \o Group(2, LazyPlus(NotIn({})))
        \o Ahead(<<In({"\n"}) \o In({"/"}), In({"\n"}) \o In({"\n"}), Eol>>)
\* r'/(\w+)\s+\{([^}]+)\}'
pattern2 ==
    In({"/"}) \o Group(1, Plus(In(Word))) \o Plus(In(Space))
        \o In({"{"}) \o Group(2, Plus(NotIn({"}"}))) \o In({"}"})
\* r'(\w+(?:\s+\w+)*)\s*\n?ID\s*:\s*(\d+)\s*\n?EXPIRED\s*:\s*([^\n]+)\s*\n?
\*   STATUS\s*:\s*(\w+)' with re.IGNORECASE | re.MULTILINE
info_pattern ==
    Group(1, Plus(In(Word)) \o Repeat(Plus(In(Space)) \o Plus(In(Word))))
        \o Star(In(Space)) \o Opt(In({"\n"}))
        \o AnyCase("i", "I") \o AnyCase("d", "D")
        \o Star(In(Space)) \o In({":"}) \o Star(In(Space))
        \o Group(2, Plus(In(Digit)))
        \o Star(In(Space)) \o Opt(In({"\n"}))
        \o AnyCase("e", "E") \o AnyCase("x", "X") \o AnyCase("p", "P")
        \o AnyCase("i", "I") \o AnyCase("r", "R") \o AnyCase("e", "E")
        \o AnyCase("d", "D")
        \o Star(In(Space)) \o In({":"}) \o Star(In(Space))
        \o Group(3, Plus(NotIn({"\n"})))
        \o Star(In(Space)) \o Opt(In({"\n"}))
        \o AnyCase("s", "S") \o AnyCase("t", "T") \o AnyCase("a", "A")
        \o AnyCase("t", "T") \o AnyCase("u", "U") \o AnyCase("s", "S")
        \o Star(In(Space)) \o In({":"}) \o Star(In(Space))
        \o Group(4, Plus(In(Word)))

parse_bot_response_for_commands(response_text) ==
    LET matches1 == re_findall(pattern1, response_text)
        matches2 == re_findall(pattern2, response_text)
        info_match == re_search(info_pattern, response_text)
        general(m) ==
            [command |-> "/" \o Str(group(response_text, m, 1)),
             description |-> Str(strip(group(response_text, m, 2))),
             category |-> "general"]
        parametric(m) ==
            LET cmd == Str(group(response_text, m, 1))
                param == Str(group(response_text, m, 2))
            IN  [command |-> "/" \o cmd,
                 description |-> "Command with parameter: " \o param,
                 usage_example |-> "/" \o cmd \o " {" \o param \o "}",
                 category |-> "parametric"]
        commands ==
            List([i \in DOMAIN matches1 |-> general(matches1[i])])
                \o List([i \in DOMAIN matches2 |-> parametric(matches2[i])])
        bot_status_ ==
            IF info_match.ok
                THEN [name |-> Str(strip(group(response_text, info_match, 1))),
                      id |-> Str(group(response_text, info_match, 2)),
                      expired |-> Str(strip(group(response_text, info_match, 3))),
                      status |-> Str(strip(group(response_text, info_match, 4)))]
                ELSE EmptyDict
    IN  [commands |-> commands, bot_status |-> bot_status_,
         total_commands |-> Len(commands)]

\* sample lines of a reply, in the forms of the reply in sync_bot_commands:
\* plain command lines (a /word token, then a description), a parametric line,
\* a blank line, lines of words, and the three labelled lines of a status block
PlainLine(token, rest) ==
    [kind |-> "plain", text |-> <<"/">> \o token \o rest, token |-> Str(token)]
OtherLine(kind, text) ==
    [kind |-> kind, text |-> text, token |-> ""]
BlockLines(text, id, expired, status) ==
    [kind |-> "block", text |-> text, token |-> "",
     id |-> id, expired |-> expired, status |-> status]
PlainLines ==
    {PlainLine(<<"a">>, <<" ", "x">>), PlainLine(<<"b", "_", "1">>, <<" ", " ", "-", " ", "y", " ", "z">>)}
NameLines ==
    {OtherLine("name", <<"Z", " ", "O">>),
     OtherLine("name", <<"h", "e", "l", "l", "o">>)}
Blocks ==
    {BlockLines(<<"I", "D", " ", ":", " ", "7", "\n", "E", "X", "P", "I", "R", "E", "D", " ", ":", " ", "2", " ", "J", "\n", "S", "T", "A", "T", "U", "S", " ", ":", " ", "A">>,
                "7", "2 J", "A"),
     BlockLines(<<"i", "d", ":", "8", "\n", "e", "x", "p", "i", "r", "e", "d", ":", "x", " ", "y", "\n", "s", "t", "a", "t", "u", "s", ":", "o", "k">>,
                "8", "x y", "ok")}
Lines ==
    PlainLines \cup NameLines \cup Blocks
        \cup {OtherLine("parametric", <<"/", "c", " ", "{", "n", "}", " ", "-", " ", "q">>),
              OtherLine("blank", <<>>)}
\* the replies of at most MaxLines lines
MaxLines ==
    3
Replies ==
    UNION {[1..n -> Lines] : n \in 0..MaxLines}

\* lines with the parametric form: a /word token, a separator and a
\* {placeholder} group, as "/ceksiswa {nik} - ..." of the reply in
\* sync_bot_commands; usage is the literal text up to the closing brace
ParamLine(token, sep, placeholder, rest) ==
    [kind |-> "parametric",
     text |-> <<"/">> \o token \o sep \o <<"{">> \o placeholder \o <<"}">>
                \o rest,
     token |-> Str(token),
     usage |-> Str(<<"/">> \o token \o sep \o <<"{">> \o placeholder
                    \o <<"}">>)]
ParamLines ==
    {ParamLine(<<"c">>, <<" ">>, <<"n">>, <<>>),
     ParamLine(<<"d">>, <<" ", " ">>, <<"m">>, <<" ", "-", " ", "q">>)}
ParamReplies ==
    UNION {[1..n -> ParamLines \cup {PlainLine(<<"c">>, <<" ", "x">>),
                                     OtherLine("blank", <<>>)}] :
                n \in 0..MaxLines}

\* "\n".join(lines)
RECURSIVE JoinLines(_)
JoinLines(lines) ==
    IF lines = <<>> THEN <<>>
    ELSE IF Len(lines) = 1 THEN lines[1].text
    ELSE lines[1].text \o <<"\n">> \o JoinLines(Tail(lines))

\* the parser applied to the reply at hand
parse_call ==
    /\ result' = [op |-> "parse_bot_response_for_commands",
                  value |-> parse_bot_response_for_commands(JoinLines(reply))]
    /\ UNCHANGED <<bot_instances, bot_commands, bot_status, conn, now,
                   syncing, reply>>
    /\ UNCHANGED relayVars

\* simulated_help_response of sync_bot_commands
simulated_help_response ==
    <<"\n", "Z", "E", "R", "I", "F", " ", "O", "S", "I", "N", "T", "\n", "I",
      "D", " ", ":", " ", "7", "5", "5", "5", "2", "0", "2", "2", "1", "8",
      "\n", "E", "X", "P", "I", "R", "E", "D", " ", ":", " ", "2", "9", " ",
      "J", "u", "n", " ", "2", "0", "2", "6", " ", "2", "2", ":", "0", ":",
      "2", "0", "\n", "S", "T", "A", "T", "U", "S", " ", ":", " ", "A", "C",
      "T", "I", "V", "E", "\n", "\n", "/", "p", "r", "e", "m", "i", "u", "m",
      " ", "-", " ", "U", "p", "g", "r", "a", "d", "e", " ", "t", "o", " ",
      "p", "r", "e", "m", "i", "u", "m", " ", "f", "e", "a", "t", "u", "r",
      "e", "s", "\n", "/", "d", "i", "s", "c", "l", "a", "i", "m", "e", "r",
      " ", "-", " ", "S", "h", "o", "w", " ", "t", "e", "r", "m", "s", " ",
      "a", "n", "d", " ", "d", "i", "s", "c", "l", "a", "i", "m", "e", "r",
      "\n", "\n", "/", "n", "o", "p", "o", "l", " ", "K", "T", " ", "6", "4",
      "7", "1", " ", "Z", "K", " ", "-", " ", "C", "h", "e", "c", "k", " ",
      "v", "e", "h", "i", "c", "l", "e", " ", "r", "e", "g", "i", "s", "t",
      "r", "a", "t", "i", "o", "n", "\n", "/", "c", "e", "k", "s", "i", "s",
      "w", "a", " ", "{", "n", "i", "k", "}", " ", "-", " ", "C", "h", "e",
      "c", "k", " ", "s", "t", "u", "d", "e", "n", "t", " ", "d", "a", "t",
      "a", " ", "b", "y", " ", "N", "I", "K", "\n", "/", "c", "a", "r", "i",
      "_", "d", "o", "k", "t", "e", "r", " ", "{", "n", "a", "m", "a", "}",
      " ", "-", " ", "S", "e", "a", "r", "c", "h", " ", "d", "o", "c", "t",
      "o", "r", " ", "b", "y", " ", "n", "a", "m", "e", "\n", "/", "c", "a",
      "r", "i", "_", "n", "a", "m", "a", " ", "{", "n", "a", "m", "a", "}",
      "#", "{", "p", "r", "o", "v", "i", "n", "s", "i", "}", " ", "-", " ",
      "S", "e", "a", "r", "c", "h", " ", "p", "e", "r", "s", "o", "n", " ",
      "b", "y", " ", "n", "a", "m", "e", " ", "a", "n", "d", " ", "p", "r",
      "o", "v", "i", "n", "c", "e", "\n", "/", "c", "a", "r", "i", "_", "m",
      "a", "h", "a", "s", "i", "s", "w", "a", " ", "{", "n", "a", "m", "a",
      "}", " ", "-", " ", "S", "e", "a", "r", "c", "h", " ", "s", "t", "u",
      "d", "e", "n", "t", " ", "b", "y", " ", "n", "a", "m", "e", "\n", "/",
      "d", "e", "t", "a", "i", "l", "_", "m", "a", "h", "a", "s", "i", "s",
      "w", "a", " ", "{", "i", "d", "}", " ", "-", " ", "G", "e", "t", " ",
      "d", "e", "t", "a", "i", "l", "e", "d", " ", "s", "t", "u", "d", "e",
      "n", "t", " ", "i", "n", "f", "o", "\n", "/", "b", "p", "j", "s", " ",
      "{", "n", "i", "k", "}", " ", "-", " ", "C", "h", "e", "c", "k", " ",
      "B", "P", "J", "S", " ", "i", "n", "s", "u", "r", "a", "n", "c", "e",
      " ", "d", "a", "t", "a", "\n", "/", "d", "e", "t", "a", "i", "l", "_",
      "k", "e", "l", "u", "a", "r", "g", "a", " ", "{", "n", "i", "k", "}",
      " ", "-", " ", "G", "e", "t", " ", "f", "a", "m", "i", "l", "y", " ",
      "d", "e", "t", "a", "i", "l", "s", "\n", "/", "r", "e", "g", "i", "s",
      " ", "{", "n", "i", "k", "/", "p", "h", "o", "n", "e", "}", " ", "-",
      " ", "R", "e", "g", "i", "s", "t", "e", "r", " ", "n", "e", "w", " ",
      "u", "s", "e", "r", "\n", "/", "k", "k", " ", "{", "n", "o", " ", "k",
      "k", "}", " ", "-", " ", "C", "h", "e", "c", "k", " ", "f", "a", "m",
      "i", "l", "y", " ", "c", "a", "r", "d", "\n", "/", "n", "i", "k", "l",
      "o", "o", "k", "u", "p", " ", "{", "n", "i", "k", "}", " ", "-", " ",
      "L", "o", "o", "k", "u", "p", " ", "N", "I", "K", " ", "d", "e", "t",
      "a", "i", "l", "s", "\n", "/", "i", "p", "l", "o", "o", "k", "u", "p",
      " ", "{", "i", "p", "-", "a", "d", "d", "r", "e", "s", "s", "}", " ",
      "-", " ", "I", "P", " ", "a", "d", "d", "r", "e", "s", "s", " ", "l",
      "o", "o", "k", "u", "p", "\n", "/", "d", "e", "t", "a", "i", "l", "_",
      "n", "i", "p", " ", "{", "n", "i", "p", "}", " ", "-", " ", "G", "o",
      "v", "e", "r", "n", "m", "e", "n", "t", " ", "e", "m", "p", "l", "o",
      "y", "e", "e", " ", "d", "e", "t", "a", "i", "l", "s", "\n", "/", "c",
      "e", "k", "_", "p", "n", "s", " ", "{", "n", "i", "p", "}", " ", "-",
      " ", "C", "h", "e", "c", "k", " ", "c", "i", "v", "i", "l", " ", "s",
      "e", "r", "v", "a", "n", "t", " ", "d", "a", "t", "a", "\n", "/", "d",
      "e", "t", "a", "i", "l", "_", "n", "r", "p", " ", "{", "n", "r", "p",
      "}", " ", "-", " ", "M", "i", "l", "i", "t", "a", "r", "y", " ", "p",
      "e", "r", "s", "o", "n", "n", "e", "l", " ", "d", "e", "t", "a", "i",
      "l", "s", "\n", "/", "i", "m", "e", "i", " ", "{", "i", "m", "e", "i",
      "}", " ", "-", " ", "I", "M", "E", "I", " ", "d", "e", "v", "i", "c",
      "e", " ", "l", "o", "o", "k", "u", "p", "\n", "/", "n", "o", "p", "o",
      "l", "_", "b", " ", "{", "p", "l", "a", "t", "e", "}", " ", "-", " ",
      "A", "l", "t", "e", "r", "n", "a", "t", "i", "v", "e", " ", "v", "e",
      "h", "i", "c", "l", "e", " ", "l", "o", "o", "k", "u", "p", "\n">>



\* ---------------------------------------------------------- sync_bot_commands
\* parsed_data = self.parse_bot_response_for_commands(simulated_help_response)
parsed_data ==
    parse_bot_response_for_commands(simulated_help_response)

\* what a sync_bot_commands call was: its argument, when it started, the
\* content it started from and what its two contacts with the master gave
\* (bot_info "none": extract_bot_info was not called)
SyncCall(f) ==
    [bot_id |-> f.bot_id, at |-> f.at, before |-> f.before,
     bot_info |-> f.bot_info, probe_results |-> f.probe_results]

\* mutant: the row is not looked at, the master is contacted for any bot_id
sync_bot_commands_call_unchecked(bot_id) ==
    /\ syncing = NoSync
    /\ conn = NoConn
    /\ syncing' = [pc |-> "contact", bot_id |-> bot_id, at |-> now,
                   before |-> Committed, bot_info |-> "none",
                   probe_results |-> 0]
    /\ result' = NoResult
    /\ UNCHANGED <<bot_instances, bot_commands, bot_status, conn, now, reply>>
    /\ UNCHANGED relayVars

\* SELECT ... FROM bot_instances WHERE bot_id = ?; if not bot_data: return
sync_bot_commands_call(bot_id) ==
    /\ syncing = NoSync
    /\ conn = NoConn
    /\ LET frame == [pc |-> "contact", bot_id |-> bot_id, at |-> now,
                     before |-> Committed, bot_info |-> "none",
                     probe_results |-> 0]
       IN  IF bot_id \notin DOMAIN bot_instances
           THEN /\ result' = [op |-> "sync_bot_commands",
                              value |-> [success |-> FALSE,
                                         error |-> "Bot not found"],
                              call |-> SyncCall(frame)]
                /\ UNCHANGED syncing
           ELSE /\ syncing' = frame
                /\ result' = NoResult
    /\ UNCHANGED <<bot_instances, bot_commands, bot_status, conn, now, reply>>
    /\ UNCHANGED relayVars

\* extract_bot_info and probe_bot_commands: both catch every exception, so an
\* unreachable master gives status "error" and no probe result, and the sync
\* goes on
sync_bot_commands_contact(reachable) ==
    /\ syncing.pc = "contact"
    /\ syncing' = [syncing EXCEPT
                    !.pc = "save",
                    !.bot_info = IF reachable THEN "accessible" ELSE "error",
                    !.probe_results = IF reachable THEN NProbes ELSE 0]
    /\ UNCHANGED <<bot_instances, bot_commands, bot_status, conn, result, now,
                   reply>>
    /\ UNCHANGED relayVars

\* success = self.save_extracted_commands(bot_id, parsed_data)
sync_bot_commands_save ==
    /\ syncing.pc = "save"
    /\ result = NoResult
    /\ save_extracted_commands_call(syncing.bot_id, parsed_data)

\* return {"success": success, "commands_found": ..., ...}
sync_bot_commands_return ==
    /\ syncing.pc = "save"
    /\ result.op = "save_extracted_commands"
    /\ result' = [op |-> "sync_bot_commands",
                  value |-> [success |-> result.value,
                             commands_found |-> parsed_data.total_commands,
                             bot_status |-> parsed_data.bot_status,
                             last_sync |-> now],
                  call |-> SyncCall(syncing)]
    /\ syncing' = NoSync
    /\ UNCHANGED <<bot_instances, bot_commands, bot_status, conn, now, reply>>
    /\ UNCHANGED relayVars

\* ------------------------------------------------- show_sync_commands_menu
\* the rows of the SELECT and the sync_status shown for each
SyncMenuOf(db, user_id, t) ==
    LET mine == {b \in DOMAIN db.instances :
                    /\ db.instances[b].owner_telegram_id = user_id
                    /\ db.instances[b].is_active}
        last_sync(b) == db.instances[b].last_command_sync
        sync_status(b) ==
            IF last_sync(b) = NULL THEN "Never synced"
            ELSE IF t - last_sync(b) < 1 THEN "Recently synced"
            ELSE IF t - last_sync(b) < 24 THEN "h ago"
            ELSE "d ago"
    IN  [b \in mine |-> sync_status(b)]

show_sync_commands_menu(user_id) ==
    /\ result' = [op |-> "show_sync_commands_menu", user_id |-> user_id,
                  value |-> SyncMenuOf(Committed, user_id, now), at |-> now]
    /\ UNCHANGED <<bot_instances, bot_commands, bot_status, conn, now>>
    /\ UNCHANGED <<syncing, reply>>
    /\ UNCHANGED relayVars

\* an hour passes
Tick ==
    /\ now < MaxTime
    /\ now' = now + 1
    /\ UNCHANGED <<bot_instances, bot_commands, bot_status, conn, result>>
    /\ UNCHANGED <<syncing, reply>>
    /\ UNCHANGED relayVars

\* ---------------------------------------------------------- specifications
Constructed ==
    /\ pc = [r \in Reqs |-> "idle"]
    /\ connected = FALSE
    /\ handlers = <<>>
    /\ running = {}
    /\ delivered = [r \in Reqs |-> <<>>]
    /\ masterInbox = {}
    /\ net = <<>>
    /\ submittedFor = [r \in Reqs |-> {}]
    /\ bot_instances = <<>>
    /\ bot_commands = <<>>
    /\ bot_status = <<>>
    /\ conn = NoConn
    /\ result = NoResult
    /\ now = 0
    /\ syncing = NoSync

Init ==
    /\ Constructed
    /\ reply = <<>>

\* the relay bot serving one facade, next to the owner creating instances
Next ==
    \/ \E r \in Reqs : relay_command_enter(r)
    \/ \E r \in Reqs : relay_command_send(r)
    \/ \E r \in Reqs : relay_command_register(r)
    \/ \E r \in Reqs : relay_command_exit(r)
    \/ \E h \in Reqs, m \in Reqs : handler(h, m)
    \/ \E m \in Reqs : MasterReply(m)
    \/ Dispatch
    \/ Missed
    \/ \E q \in Quotas : create_bot_instance(1, 100, TOKEN_TIRUAN, q, DefaultDuration)

Spec ==
    Init /\ [][Next]_vars

\* the instance store under its owner's calls, with concurrent readers
StoreNext ==
    \/ \E b \in BotIds :
            create_bot_instance(b, 100, TOKEN_TIRUAN, DefaultQuota, DefaultDuration)
    \/ \E b \in BotIds, data \in CommandsData : save_extracted_commands_call(b, data)
    \/ save_extracted_commands_delete
    \/ save_extracted_commands_insert
    \/ save_extracted_commands_status
    \/ save_extracted_commands_sync
    \/ save_extracted_commands_commit
    \/ save_extracted_commands_except
    \/ \E b \in BotIds : get_bot_commands_list(b)
    \/ \E o \in Owners : show_view_commands_menu(o)

StoreSpec ==
    Init /\ [][StoreNext]_vars

\* the relay bot under a fair scheduler: a call that has started runs on,
\* a message that reached the open session is dispatched, a started send of
\* bot_tiruan completes; the users and the master are under no obligation
Program ==
    \/ \E r \in Reqs : relay_command_send(r)
    \/ \E r \in Reqs : relay_command_register(r)
    \/ \E r \in Reqs : relay_command_exit(r)
    \/ \E h \in Reqs, m \in Reqs : handler(h, m)
    \/ Dispatch

FairSpec ==
    Init /\ [][Next]_vars /\ WF_vars(Program)

\* the owner's instances over time: created, synced and listed. The bot
\* handles one update at a time, so no menu is shown while a sync runs, and
\* a save, which does not yield, takes less than an hour
SyncNext ==
    \/ \E b \in BotIds, d \in Durations :
            create_bot_instance(b, 100, TOKEN_TIRUAN, DefaultQuota, d)
    \/ \E b \in BotIds : sync_bot_commands_call(b)
    \/ \E reachable \in BOOLEAN : sync_bot_commands_contact(reachable)
    \/ sync_bot_commands_save
    \/ save_extracted_commands_delete
    \/ save_extracted_commands_insert
    \/ save_extracted_commands_status
    \/ save_extracted_commands_sync
    \/ save_extracted_commands_commit
    \/ save_extracted_commands_except
    \/ sync_bot_commands_return
    \/ \E o \in Owners : syncing = NoSync /\ show_sync_commands_menu(o)
    \/ \E o \in Owners : syncing = NoSync /\ show_view_commands_menu(o)
    \/ conn = NoConn /\ Tick

SyncSpec ==
    Init /\ [][SyncNext]_vars

\* instances created over time, with every quota and duration
CreateNext ==
    \/ \E b \in BotIds, q \in Quotas \cup {DefaultQuota}, d \in Durations :
            create_bot_instance(b, 100, TOKEN_TIRUAN, q, d)
    \/ Tick

CreateSpec ==
    Init /\ [][CreateNext]_vars

\* the parser alone, on every sample reply
ParseInit ==
    /\ Constructed
    /\ reply \in Replies
ParseNext ==
    parse_call
ParseSpec ==
    ParseInit /\ [][ParseNext]_vars

\* the parser on replies that hold parametric lines
ParamInit ==
    /\ Constructed
    /\ reply \in ParamReplies
ParamSpec ==
    ParamInit /\ [][ParseNext]_vars

\* ------------------------------------------------------------------ claims
\* the requester of r was sent the reply to r
Got(r) ==
    r \in Range(delivered[r])

Registered(r) ==
    r \in Range(handlers)

\* r's command is with the master or its reply subscription is registered
InFlight(r) ==
    pc[r] \in {"register", "exit"} \/ Registered(r)

\* every command sent to the master is still unanswered
MasterSilent ==
    masterInbox = {r \in Reqs : pc[r] \in {"register", "exit", "done"}}

\* relays for instance b whose requester was sent a reply
Successes(b) ==
    {r \in Reqs : b \in submittedFor[r] /\ delivered[r] # <<>>}

\* C1: with two relay calls on the same (facade, master) pair, each requester
\* receives only the reply to its own command, never the reply to the other's.
C1_OwnReplyOnly ==
    \A r \in Reqs : \A i \in DOMAIN delivered[r] : delivered[r][i] = r

\* C2: at most one relay is in flight (command sent, subscription registered)
\* on the pair at any time; a later call neither sends nor subscribes before
\* the earlier one has completed.
C2_OneInFlight ==
    Cardinality({r \in Reqs : InFlight(r)}) <= 1

\* C3: relays on one pair complete in submission order: when B, submitted
\* after A, has been sent its reply, A has been sent its reply already.
C3_FifoCompletion ==
    \A a \in Reqs, b \in Reqs : a < b /\ Got(b) => Got(a)

\* C4: a relay's subscription is one-shot: its requester is sent exactly one
\* master message, also when a second one arrives while the first delivery
\* is pending, and the subscription is deregistered after the delivery.
C4_OneShot ==
    \A r \in Reqs :
        /\ Len(delivered[r]) <= 1
        /\ delivered[r] # <<>> => ~Registered(r)

\* C5: a relay whose master sends no reply terminates: its subscription is
\* eventually deregistered (timeout), no subscription stays registered forever.
C5_TimeoutDeregisters ==
    \A r \in Reqs : Registered(r) ~> ~Registered(r)

\* C6: quota_used of an instance equals the number of its relays whose reply
\* was delivered: one increment per successful relay, none lost or doubled.
C6_QuotaCountsSuccesses ==
    \A b \in FacadeInstances :
        bot_instances[b].quota_used = Cardinality(Successes(b))

\* C7: once quota_used equals quota_limit the relay is refused before anything
\* is sent to the master, and quota_used <= quota_limit in every state.
C7_QuotaRefusal ==
    [][/\ \A r \in Reqs :
            pc[r] = "send" /\ pc'[r] = "register" =>
                \A b \in submittedFor[r] :
                    bot_instances[b].quota_used < bot_instances[b].quota_limit
       /\ \A b \in FacadeInstances :
            bot_instances[b].quota_used <= bot_instances[b].quota_limit]_vars

\* C8: relays against a master that never replies leave quota_used as it was
\* at creation, 0: nothing is charged for an unanswered relay.
C8_NoChargeWithoutReply ==
    MasterSilent => \A b \in FacadeInstances : bot_instances[b].quota_used = 0

\* two relays for an instance created with quota 2 have returned, the master
\* has answered neither
C8_Witness ==
    \E b \in FacadeInstances :
        /\ bot_instances[b].quota_limit = 2
        /\ Cardinality({r \in Reqs : pc[r] = "done" /\ b \in submittedFor[r]}) >= 2
        /\ MasterSilent
        /\ handlers # <<>>

\* the content of the tables after a complete save_extracted_commands
RECURSIVE InsertAll(_, _, _)
InsertAll(db, bot_id, cmds) ==
    IF cmds = <<>> THEN db
    ELSE InsertAll(InsertCommand(db, bot_id, Head(cmds)), bot_id, Tail(cmds))

Replaced(db, bot_id, data, t) ==
    LET inserted == InsertAll(DeleteCommands(db, bot_id), bot_id, data.commands)
        upserted == IF data.bot_status # EmptyDict
                    THEN InsertOrReplaceStatus(inserted, bot_id, data.bot_status)
                    ELSE inserted
    IN  UpdateLastSync(upserted, bot_id, t)

\* what a reader call returns on tables db
ReaderValue(r, db) ==
    IF r.op = "get_bot_commands_list" THEN CommandsListOf(db, r.bot_id)
    ELSE CommandCountsOf(db, r.user_id)

\* C9: a reader running while save_extracted_commands is at work observes the
\* complete old entry set or the complete new one, never an empty or partly
\* inserted one.
C9_AtomicForReaders ==
    (result.op \in {"get_bot_commands_list", "show_view_commands_menu"}
        /\ result.during.bot_id # 0) =>
    LET c == result.during
    IN  \/ result.value = ReaderValue(result, c.before)
        \/ result.value = ReaderValue(result, Replaced(c.before, c.bot_id, c.data, now))

\* a reader of the instance ran after the first of two inserts of a save that
\* replaces a non-empty catalog of that instance
C9_Witness ==
    /\ result.op = "get_bot_commands_list"
    /\ result.during.bot_id = result.bot_id
    /\ result.during.pc = "insert"
    /\ result.during.k = 2
    /\ Len(result.during.data.commands) = 2
    /\ Len(result.value.commands) = 1

\* C10: when a step of save_extracted_commands fails, the entries, the status
\* snapshots and last-sync are what they were before the call, and the call
\* reports failure.
C10_AllOrNothing ==
    (result.op = "save_extracted_commands" /\ result.raised # "none") =>
        /\ result.value = FALSE
        /\ Committed = result.call.before

\* the last-sync update failed after the delete, an insert and the status
\* upsert of a save over a non-empty catalog
C10_Witness ==
    /\ result.op = "save_extracted_commands"
    /\ result.raised = "sync"
    /\ result.call.data.commands # <<>>
    /\ result.call.data.bot_status # EmptyDict
    /\ RowsOf(bot_commands, result.call.bot_id) # <<>>
    /\ result.call.bot_id \in DOMAIN bot_instances

\* C11: after a successful save_extracted_commands the stored entries of the
\* instance are exactly the entries of that call, in particular when the same
\* set is saved twice in a row: nothing is duplicated, nothing old is kept.
C11_ReplaceNotMerge ==
    (result.op = "save_extracted_commands" /\ result.value = TRUE) =>
        LET rows == RowsOf(bot_commands, result.call.bot_id)
            cmds == result.call.data.commands
        IN  /\ Len(rows) = Len(cmds)
            /\ \A i \in DOMAIN cmds :
                /\ rows[i].command = cmds[i].command
                /\ rows[i].description = cmds[i].description
                /\ rows[i].category = cmds[i].category

\* a two-entry set was saved over the same two stored entries
C11_Witness ==
    /\ result.op = "save_extracted_commands"
    /\ result.value = TRUE
    /\ Len(result.call.data.commands) = 2
    /\ RowsOf(result.call.before.commands, result.call.bot_id)
            = RowsOf(bot_commands, result.call.bot_id)

\* C12: the store holds at most one status snapshot row per instance id, each
\* write replacing the previous snapshot of the instance.
C12_OneStatusPerInstance ==
    \A b \in BotIds : Len(RowsOf(bot_status, b)) <= 1

\* C19: for a reply made of N plain command lines and nothing else, the
\* parser returns exactly N entries, the i-th with the token of the i-th line
\* and category "general", and total_commands = N.
Parsed ==
    result.op = "parse_bot_response_for_commands"
C19_PlainLinesCounted ==
    (Parsed /\ \A i \in DOMAIN reply : reply[i].kind = "plain") =>
        LET commands == result.value.commands
        IN  /\ Len(commands) = Len(reply)
            /\ result.value.total_commands = Len(reply)
            /\ \A i \in DOMAIN reply :
                /\ commands[i].command = "/" \o reply[i].token
                /\ commands[i].category = "general"
C19_Witness ==
    /\ Parsed
    /\ Len(reply) = MaxLines
    /\ \A i \in DOMAIN reply : reply[i].kind = "plain"
    /\ reply[1] # reply[2]
    /\ Len(result.value.commands) = MaxLines

\* C20: for a reply whose first labelled block directly follows a name line,
\* the parser's status snapshot has the block's id, expiry and status values
\* and, as name, exactly that name line; a reply without labelled lines gives
\* an empty status.
C20_StatusBlock ==
    Parsed =>
        /\ \A i \in DOMAIN reply :
            ( /\ i > 1
              /\ reply[i].kind = "block"
              /\ reply[i - 1].kind = "name"
              /\ \A h \in 1..(i - 1) : reply[h].kind # "block" ) =>
                result.value.bot_status =
                    [name |-> Str(reply[i - 1].text), id |-> reply[i].id,
                     expired |-> reply[i].expired, status |-> reply[i].status]
        /\ (\A i \in DOMAIN reply : reply[i].kind # "block") =>
                result.value.bot_status = EmptyDict

\* what a finished sync_bot_commands call left of its instance: the entries,
\* the status rows and the last sync time
Synced ==
    result.op = "sync_bot_commands"
InstancePart(db, bot_id) ==
    [commands |-> RowsOf(db.commands, bot_id),
     status |-> RowsOf(db.status, bot_id),
     last_command_sync |->
        IF bot_id \in DOMAIN db.instances
            THEN db.instances[bot_id].last_command_sync ELSE NULL]
Untouched ==
    InstancePart(Committed, result.call.bot_id)
        = InstancePart(result.call.before, result.call.bot_id)

\* C13: a sync during which the master could not be reached reports failure
\* and leaves the instance's entries, status rows and last sync time as they
\* were.
C13_UnreachableAborts ==
    (Synced /\ result.call.bot_info = "error") =>
        /\ result.value.success = FALSE
        /\ Untouched

\* C14: a sync on an instance id that is not stored returns an error result,
\* has not contacted the master (no info lookup, no probe sent) and leaves
\* the store as it was.
C14_UnknownInstance ==
    (Synced /\ result.call.bot_id \notin DOMAIN result.call.before.instances) =>
        /\ result.value.success = FALSE
        /\ "error" \in DOMAIN result.value
        /\ result.call.bot_info = "none"
        /\ result.call.probe_results = 0
        /\ Committed = result.call.before
C14_Witness ==
    /\ Synced
    /\ result.call.bot_id \notin DOMAIN bot_instances
    /\ bot_instances # <<>>
    /\ result.value.success = FALSE

\* C15: a sync on a stored instance that is inactive (active flag false, or
\* expired when the sync starts) fails without contacting the master and
\* without writing the instance's entries or last sync time.
Unavailable(instance, t) ==
    ~instance.is_active \/ instance.expires_at <= t
C15_InactiveInstance ==
    ( /\ Synced
      /\ result.call.bot_id \in DOMAIN result.call.before.instances
      /\ Unavailable(result.call.before.instances[result.call.bot_id],
                     result.call.at) ) =>
        /\ result.value.success = FALSE
        /\ result.call.bot_info = "none"
        /\ Untouched

\* C16: an instance whose expires_at is not in the future when the sync menu
\* is read is not listed in it.
C16_ExpiredNotListed ==
    result.op = "show_sync_commands_menu" =>
        \A b \in DOMAIN result.value : bot_instances[b].expires_at > result.at

\* C17: a successful create stores, under an id that was not stored before,
\* a row with quota_used 0, status active, the active flag set, the given
\* quota limit and duration, expires_at = creation time + duration and no
\* last sync time, and changes no other row; a failed insert returns no id
\* and stores nothing.
C17_CreateStores ==
    result.op = "create_bot_instance" =>
        LET c == result.call
        IN  IF result.value = NULL THEN bot_instances = c.before
            ELSE /\ result.value = c.bot_id
                 /\ c.bot_id \notin DOMAIN c.before
                 /\ DOMAIN bot_instances = DOMAIN c.before \cup {c.bot_id}
                 /\ \A b \in DOMAIN c.before : bot_instances[b] = c.before[b]
                 /\ LET row == bot_instances[c.bot_id]
                    IN  /\ row.quota_used = 0
                        /\ row.status = "active"
                        /\ row.is_active
                        /\ row.quota_limit = c.quota
                        /\ row.duration_hours = c.duration_hours
                        /\ row.expires_at = c.at + c.duration_hours
                        /\ row.last_command_sync = NULL
C17_Witness ==
    /\ result.op = "create_bot_instance"
    /\ result.value # NULL
    /\ result.call.before # <<>>
    /\ result.call.at > 0
    /\ result.call.quota = DefaultQuota
    /\ result.call.duration_hours = DefaultDuration

\* C18: a save_extracted_commands call with zero entries does not fail on
\* its entries, and when it commits the instance has no stored entry and its
\* last sync time is set.
C18_EmptySave ==
    ( /\ result.op = "save_extracted_commands"
      /\ result.call.data.commands = <<>> ) =>
        /\ result.raised # "insert"
        /\ result.value =>
            /\ RowsOf(bot_commands, result.call.bot_id) = <<>>
            /\ result.call.bot_id \in DOMAIN bot_instances =>
                bot_instances[result.call.bot_id].last_command_sync # NULL
C18_Witness ==
    /\ result.op = "save_extracted_commands"
    /\ result.call.data.commands = <<>>
    /\ result.value
    /\ result.call.bot_id \in DOMAIN bot_instances
    /\ RowsOf(result.call.before.commands, result.call.bot_id) # <<>>

\* C21: the parser returns one "parametric" entry per parametric line of
\* the reply, in order, with that line's token and, as usage template, the
\* literal "/word {placeholder}" text of the line (same separator); the
\* "general" entry of a plain line with the same token is kept.
OfCategory(commands, category) ==
    SelectSeq(commands, LAMBDA c : c.category = category)
OfKind(lines, kind) ==
    SelectSeq(lines, LAMBDA l : l.kind = kind)
C21_ParametricLiteral ==
    Parsed =>
        LET parametric == OfCategory(result.value.commands, "parametric")
            general == OfCategory(result.value.commands, "general")
            lines == OfKind(reply, "parametric")
        IN  /\ Len(parametric) = Len(lines)
            /\ \A i \in DOMAIN lines :
                /\ parametric[i].command = "/" \o lines[i].token
                /\ parametric[i].usage_example = lines[i].usage
            /\ \A l \in Range(OfKind(reply, "plain")) :
                \E j \in DOMAIN general : general[j].command = "/" \o l.token

\* C22: a reply that the master sends to a relayed command is eventually
\* delivered to the requester of that command, also when it arrives before
\* the reply handler is registered or after the session was closed.
C22_ReplyDelivered ==
    \A r \in Reqs : (r \in Range(net)) ~> Got(r)

\* C23: a finished save_extracted_commands call for instance A leaves the
\* entries and status rows of every other instance as they were, stores and
\* removes no instance row, and changes no field of an instance row other
\* than the last sync time of A.
C23_SaveFrame ==
    result.op = "save_extracted_commands" =>
        LET A == result.call.bot_id
            before == result.call.before
        IN  /\ \A b \in BotIds \ {A} :
                /\ RowsOf(bot_commands, b) = RowsOf(before.commands, b)
                /\ RowsOf(bot_status, b) = RowsOf(before.status, b)
            /\ DOMAIN bot_instances = DOMAIN before.instances
            /\ \A b \in DOMAIN bot_instances :
                IF b = A
                THEN [bot_instances[b] EXCEPT !.last_command_sync = NULL]
                        = [before.instances[b] EXCEPT
                                !.last_command_sync = NULL]
                ELSE bot_instances[b] = before.instances[b]
C23_Witness ==
    /\ result.op = "save_extracted_commands"
    /\ result.value
    /\ result.call.data.commands # <<>>
    /\ result.call.data.bot_status # EmptyDict
    /\ DOMAIN bot_instances = BotIds
    /\ \E b \in BotIds \ {result.call.bot_id} :
        /\ RowsOf(bot_commands, b) # <<>>
        /\ RowsOf(bot_status, b) # <<>>
        /\ bot_instances[b].last_command_sync # NULL

\* C24: every stored command entry and every stored status row carries the
\* bot_id of a stored instance.
C24_NoOrphanRows ==
    /\ \A i \in DOMAIN bot_commands :
        bot_commands[i].bot_id \in DOMAIN bot_instances
    /\ \A i \in DOMAIN bot_status :
        bot_status[i].bot_id \in DOMAIN bot_instances

=============================================================================
